---------------------------- MODULE Spec2Model ----------------------------
(***************************************************************************)
(* A model of gc::graph (src/src/gc/gc.cpp): the sorted index of           *)
(* allocation ranges, the two registries of pointer slots, and the         *)
(* collect_impl pass (guard, snapshot, mark, sweep, reset).                *)
(*                                                                         *)
(* Addresses are naturals, 0 is the null pointer.  A pointer slot takes    *)
(* one address.  A range is a record [begin, end] standing for the bytes   *)
(* begin .. end-1, as memory_range{bp, bp + size} does.                    *)
(***************************************************************************)
EXTENDS Integers, Sequences, FiniteSets, TLC

\* Addresses 1..MaxAddr are used by the specification of the range index.
MaxAddr == 4
\* Addresses 1..GraphAddr are used by the specifications of the object graph.
GraphAddr == 2

VARIABLES
    ranges,       \* graph::ranges, the sorted index: Seq of [begin, end]
    pointers,     \* graph::pointers, owning slots: Seq of [addr, ptr]
    rawPointers,  \* graph::rawPointers, observing slots: Seq of [addr, ptr]
    collecting,   \* graph::collecting, the in-progress flag
    graphLock,    \* graph::graphLock: "" or the thread holding it
    pointerLock,  \* graph::pointerLock: "" or the thread holding it
    rngs,         \* graph::rngs: Seq of [begin, end, managed, scanned]
    info,         \* graph::info: Seq of scan_info [gp, range]
    scan,         \* graph::scan: Seq of indexes into info
    keep,         \* graph::keep: Seq of indexes into info
    pc,           \* per thread: where it is in collect_impl
    idx,          \* per thread: the work index i of the mark loop
    iter,         \* per thread: the iterator of the loop it is in
    request,      \* per thread: the registry call it is inside of
    unreachable,  \* per thread: the local vector unreachable
    ret,          \* per thread: the batch its last collect() returned
    ndebug,       \* whether the build defines NDEBUG (assert compiled out)
    asserted,     \* an assert() has failed and aborted the process
    last          \* history: the last operation, its arguments and pre-state

vars == <<ranges, pointers, rawPointers, collecting, graphLock, pointerLock,
          rngs, info, scan, keep, pc, idx, iter, request, unreachable, ret,
          ndebug, asserted, last>>

Threads == {"t1", "t2"}

-----------------------------------------------------------------------------
(* Sequence helpers for the vector and list operations the code uses.      *)

\* vector::insert(it, x): x is placed before position it (1 .. Len(s)+1).
InsertAt(s, it, x) == SubSeq(s, 1, it - 1) \o <<x>> \o SubSeq(s, it, Len(s))

\* vector::erase(it), it in 1 .. Len(s).
EraseAt(s, it) == SubSeq(s, 1, it - 1) \o SubSeq(s, it + 1, Len(s))

\* The values of a sequence.
Range(s) == {s[k] : k \in 1..Len(s)}

-----------------------------------------------------------------------------
(* The range index.                                                        *)

\* std::upper_bound over [first, first+len) with the comparator
\* p < r.begin: the halving search of the standard library.
RECURSIVE upper_bound_from(_, _, _, _)
upper_bound_from(rs, p, first, len) ==
    IF len <= 0 THEN first
    ELSE LET half == len \div 2
             mid  == first + half
         IN IF p < rs[mid].begin
            THEN upper_bound_from(rs, p, first, half)
            ELSE upper_bound_from(rs, p, mid + 1, len - half - 1)

upper_bound(rs, p) == upper_bound_from(rs, p, 1, Len(rs))

\* ranges.end(), the iterator one past the last range.
EndIt(rs) == Len(rs) + 1

\* A variant of find_range_iterator whose last test excludes the end.
find_range_iterator_exclusive(rs, internalPtr) ==
    IF internalPtr # 0 /\ Len(rs) > 0
    THEN LET it == upper_bound(rs, internalPtr)
         IN IF it # 1 /\ internalPtr >= rs[it - 1].begin
                      /\ internalPtr < rs[it - 1].end
            THEN it - 1
            ELSE EndIt(rs)
    ELSE EndIt(rs)

\* graph::find_range_iterator: the position of the range attributed to
\* internalPtr, or ranges.end().  The upper bound of the test is inclusive.
find_range_iterator(rs, internalPtr) ==
    IF internalPtr # 0 /\ Len(rs) > 0
    THEN LET bp       == internalPtr
             allBegin == rs[1].begin
             allEnd   == rs[Len(rs)].end
         IN IF bp >= allBegin /\ bp <= allEnd
            THEN LET it == upper_bound(rs, bp)
                 IN IF it # 1
                    THEN IF bp >= rs[it - 1].begin /\ bp <= rs[it - 1].end
                         THEN it - 1
                         ELSE EndIt(rs)
                    ELSE EndIt(rs)
            ELSE EndIt(rs)
    ELSE EndIt(rs)

\* graph::find_range: std::optional<memory_range>, <<>> for an empty one.
find_range(rs, internalPtr) ==
    LET it == find_range_iterator(rs, internalPtr)
    IN IF it # EndIt(rs) THEN <<rs[it]>> ELSE <<>>

\* A variant of add_range that appends instead of inserting in order.
add_range_push_back(rs, p, size) ==
    Append(rs, [begin |-> p, end |-> p + size])

\* The index after add_range(p, size).
add_range_result(rs, p, size) ==
    LET bp == p
        it == upper_bound(rs, bp)
    IN InsertAt(rs, it, [begin |-> bp, end |-> bp + size])

\* What erasing ranges.end() can leave behind in a build without the
\* assert: undefined behaviour; the vector is left alone or loses its tail.
EraseEndOutcomes(rs) ==
    {rs} \cup (IF Len(rs) > 0 THEN {SubSeq(rs, 1, Len(rs) - 1)} ELSE {})

\* Half-open membership, the meaning of a range.
InRange(a, r) == r.begin <= a /\ a < r.end

\* The caller's precondition of add_range: size > 0 (the values drawn), inside
\* the address space, disjoint from every range present.
CanAdd(rs, p, size, top) ==
    /\ p + size <= top + 1
    /\ \A k \in 1..Len(rs) : rs[k].end <= p \/ p + size <= rs[k].begin

-----------------------------------------------------------------------------
(* collect_impl, phase by phase.  A trace state tr is the record           *)
(* [rngs, info, scan, keep, oob] of the four transient buffers, plus oob:  *)
(* whether an index past the end of rngs was used.  Positions are 1-based. *)

EmptyTrace == [rngs |-> <<>>, info |-> <<>>, scan |-> <<>>, keep |-> <<>>,
               oob |-> FALSE]

\* graph_ptr's operator bool, if (gp): the slot holds a strong reference.
IsSet(gp) == gp.ptr # 0

\* rngs.push_back({ r.begin, r.end, false, false }) for every range.
SnapRanges(rs) ==
    [k \in 1..Len(rs) |-> [begin |-> rs[k].begin, end |-> rs[k].end,
                           managed |-> FALSE, scanned |-> FALSE]]

\* bool isRoot = !find_range(si.gp)
IsRoot(rs, gpAddr) == find_range(rs, gpAddr) = <<>>

\* A variant of the loop body that marks the range managed whatever the
\* kind of the slot.
PushRecordManaged(tr, rs, gpAddr, idx_r, flag) ==
    LET si  == [gp |-> gpAddr, range |-> idx_r]
        id  == Len(tr.info) + 1
        rg  == IF idx_r <= Len(tr.rngs)
               THEN [tr.rngs EXCEPT ![idx_r].managed = TRUE]
               ELSE tr.rngs
        t1  == [tr EXCEPT !.rngs = rg, !.info = Append(tr.info, si),
                          !.oob = tr.oob \/ idx_r > Len(tr.rngs)]
    IN IF find_range(rs, gpAddr) = <<>>
       THEN [t1 EXCEPT !.keep = Append(t1.keep, id)]
       ELSE [t1 EXCEPT !.scan = Append(t1.scan, id)]

\* si.range->managed = flag, info.push_back(si), then keep or scan
\* .push_back(idx): the body shared by the two snapshot loops.
PushRecord(tr, rs, gpAddr, idx_r, flag) ==
    LET si  == [gp |-> gpAddr, range |-> idx_r]
        id  == Len(tr.info) + 1
        rg  == IF idx_r <= Len(tr.rngs)
               THEN [tr.rngs EXCEPT ![idx_r].managed = flag]
               ELSE tr.rngs
        t1  == [tr EXCEPT !.rngs = rg, !.info = Append(tr.info, si),
                          !.oob = tr.oob \/ idx_r > Len(tr.rngs)]
    IN IF IsRoot(rs, gpAddr)
       THEN [t1 EXCEPT !.keep = Append(t1.keep, id)]
       ELSE [t1 EXCEPT !.scan = Append(t1.scan, id)]

\* for (auto& gp : pointers), from position k on.
RECURSIVE SnapPointers(_, _, _, _)
SnapPointers(tr, rs, ptrs, k) ==
    IF k > Len(ptrs) THEN tr
    ELSE LET gp == ptrs[k]
         IN IF IsSet(gp)
            THEN SnapPointers(
                     PushRecord(tr, rs, gp.addr,
                                find_range_iterator(rs, gp.ptr), TRUE),
                     rs, ptrs, k + 1)
            ELSE SnapPointers(tr, rs, ptrs, k + 1)

\* for (auto& rgp : rawPointers), from position k on.
RECURSIVE SnapRawPointers(_, _, _, _)
SnapRawPointers(tr, rs, raws, k) ==
    IF k > Len(raws) THEN tr
    ELSE LET rgp  == raws[k]
             it_r == find_range_iterator(rs, rgp.ptr)
         IN IF it_r # EndIt(rs)
            THEN SnapRawPointers(PushRecord(tr, rs, rgp.addr, it_r, FALSE),
                                 rs, raws, k + 1)
            ELSE SnapRawPointers(tr, rs, raws, k + 1)

\* The whole block under the scoped_lock, pushing onto the buffers tr.
SnapshotOnto(tr, rs, ptrs, raws) ==
    LET t0 == [tr EXCEPT !.rngs = tr.rngs \o SnapRanges(rs)]
        t1 == SnapPointers(t0, rs, ptrs, 1)
    IN SnapRawPointers(t1, rs, raws, 1)

\* The snapshot of a pass that finds the buffers cleared.
Snapshot(rs, ptrs, raws) == SnapshotOnto(EmptyTrace, rs, ptrs, raws)

\* if (bp >= parent.range->begin && bp < parent.range->end)
InParent(bp, r) == bp >= r.begin /\ bp < r.end

\* A variant of the inner loop's turn that steps past the element swapped
\* into the place of a match.
ScanStepSkip(tr, r, it) ==
    LET id == tr.scan[it]
        bp == tr.info[id].gp
        n  == Len(tr.scan)
        sw == [tr.scan EXCEPT ![it] = tr.scan[n]]
    IN IF bp >= r.begin /\ bp < r.end
       THEN [tr |-> [tr EXCEPT !.keep = Append(tr.keep, id),
                               !.scan = SubSeq(sw, 1, n - 1)],
             it |-> it + 1]
       ELSE [tr |-> tr, it |-> it + 1]

\* A variant of the inner loop's turn that pushes a match on keep and leaves
\* it in scan.
ScanStepDup(tr, r, it) ==
    LET id == tr.scan[it]
        bp == tr.info[id].gp
    IN IF bp >= r.begin /\ bp < r.end
       THEN [tr |-> [tr EXCEPT !.keep = Append(tr.keep, id)], it |-> it + 1]
       ELSE [tr |-> tr, it |-> it + 1]

\* One turn of the inner loop over scan, at iterator it, for the parent's
\* range r: a match is pushed on keep and overwritten by scan.back() (swap
\* and pop) and the iterator stays; otherwise ++it.
ScanStep(tr, r, it) ==
    LET id == tr.scan[it]
        bp == tr.info[id].gp
        n  == Len(tr.scan)
        sw == [tr.scan EXCEPT ![it] = tr.scan[n]]
    IN IF InParent(bp, r)
       THEN [tr |-> [tr EXCEPT !.keep = Append(tr.keep, id),
                               !.scan = SubSeq(sw, 1, n - 1)],
             it |-> it]
       ELSE [tr |-> tr, it |-> it + 1]

\* The inner loop over scan from iterator it on.
RECURSIVE ScanLoop(_, _, _)
ScanLoop(tr, r, it) ==
    IF it > Len(tr.scan) THEN tr
    ELSE LET s == ScanStep(tr, r, it)
         IN ScanLoop(s.tr, r, s.it)

\* One turn of the outer loop, for keep[i].
MarkParent(tr, i) ==
    LET parent == tr.info[tr.keep[i]]
    IN IF parent.range > Len(tr.rngs) THEN [tr EXCEPT !.oob = TRUE]
       ELSE IF tr.rngs[parent.range].scanned THEN tr
       ELSE LET t1 == ScanLoop(tr, tr.rngs[parent.range], 1)
            IN [t1 EXCEPT !.rngs[parent.range].scanned = TRUE]

\* for (size_t i = 0; i != keep.size(); ++i), from work index i on.
RECURSIVE Mark(_, _)
Mark(tr, i) ==
    IF i > Len(tr.keep) THEN tr ELSE Mark(MarkParent(tr, i), i + 1)

\* The position in ptrs of the owning slot stored at gpAddr, 0 if none.
SlotAt(ptrs, gpAddr) ==
    IF \E k \in 1..Len(ptrs) : ptrs[k].addr = gpAddr
    THEN CHOOSE k \in 1..Len(ptrs) : ptrs[k].addr = gpAddr
    ELSE 0

\* if (si.range->managed): the sweep's test of one record.
IsManaged(tr, si) == si.range <= Len(tr.rngs) /\ tr.rngs[si.range].managed

\* A variant of the sweep that copies the strong reference and leaves the
\* slot as it was.
RECURSIVE SweepCopy(_, _, _)
SweepCopy(tr, sw, k) ==
    IF k > Len(tr.scan) THEN sw
    ELSE LET si == tr.info[tr.scan[k]]
             at == SlotAt(sw.pointers, si.gp)
         IN IF IsManaged(tr, si) /\ at # 0
            THEN SweepCopy(tr,
                           [sw EXCEPT !.unreachable =
                                Append(sw.unreachable, sw.pointers[at].ptr)],
                           k + 1)
            ELSE SweepCopy(tr, sw, k + 1)

\* A variant of the sweep that takes every record left in scan, whatever its
\* range's flag and its slot's kind, and returns what the record refers to.
RECURSIVE SweepAll(_, _, _)
SweepAll(tr, sw, k) ==
    IF k > Len(tr.scan) THEN sw
    ELSE LET si == tr.info[tr.scan[k]]
             at == SlotAt(sw.pointers, si.gp)
         IN SweepAll(tr,
                     [unreachable |->
                          Append(sw.unreachable, tr.rngs[si.range].begin),
                      pointers |-> IF at # 0
                                   THEN [sw.pointers EXCEPT ![at].ptr = 0]
                                   ELSE sw.pointers],
                     k + 1)

\* A variant of the sweep's turn that empties the slot and lets the strong
\* reference go instead of keeping it in unreachable.
SweepStepRelease(tr, sw, k) ==
    LET si == tr.info[tr.scan[k]]
        at == SlotAt(sw.pointers, si.gp)
    IN IF si.range <= Len(tr.rngs) /\ tr.rngs[si.range].managed /\ at # 0
       THEN [unreachable |-> sw.unreachable,
             pointers |-> [sw.pointers EXCEPT ![at].ptr = 0]]
       ELSE sw

\* One turn of the sweep, for scan[k]: sw is [unreachable, pointers].
\* unreachable.push_back(std::move(mptr->ptr)) empties the slot.
SweepStep(tr, sw, k) ==
    LET si == tr.info[tr.scan[k]]
        at == SlotAt(sw.pointers, si.gp)
    IN IF IsManaged(tr, si) /\ at # 0
       THEN [unreachable |-> Append(sw.unreachable, sw.pointers[at].ptr),
             pointers |-> [sw.pointers EXCEPT ![at].ptr = 0]]
       ELSE sw

\* The sweep from position k of scan on.
RECURSIVE Sweep(_, _, _)
Sweep(tr, sw, k) ==
    IF k > Len(tr.scan) THEN sw
    ELSE Sweep(tr, SweepStep(tr, sw, k), k + 1)

\* A whole collect_impl call that passes the guard, run without
\* interruption: [unreachable, pointers] when it returns.
collect_result(rs, ptrs, raws) ==
    LET tr == Mark(Snapshot(rs, ptrs, raws), 1)
    IN Sweep(tr, [unreachable |-> <<>>, pointers |-> ptrs], 1)

-----------------------------------------------------------------------------
(* The operations of graph.  Each leaves the history variable last to the  *)
(* specification that uses it.                                             *)

NoThread == ""

\* The thread is inside no registry call.
NoRequest == [op |-> "none"]

\* What every operation needs: the process has not been aborted.
Running == ~asserted

\* graph::add_range(p, size), under graphLock.
add_range(p, size) ==
    /\ Running /\ graphLock = NoThread
    /\ ranges' = add_range_result(ranges, p, size)
    /\ UNCHANGED <<pointers, rawPointers, collecting, graphLock, pointerLock,
                   rngs, info, scan, keep, pc, idx, iter, unreachable, ndebug,
                   request, asserted>>

\* graph::remove_range(p), under graphLock.  assert(it != ranges.end())
\* aborts the process; with NDEBUG the erase of ranges.end() is undefined.
remove_range(p) ==
    /\ Running /\ graphLock = NoThread
    /\ LET it == find_range_iterator(ranges, p)
       IN IF it # EndIt(ranges)
          THEN ranges' = EraseAt(ranges, it) /\ asserted' = FALSE
          ELSE IF ~ndebug
          THEN ranges' = ranges /\ asserted' = TRUE
          ELSE ranges' \in EraseEndOutcomes(ranges) /\ asserted' = FALSE
    /\ UNCHANGED <<pointers, rawPointers, collecting, graphLock, pointerLock,
                   rngs, info, scan, keep, pc, idx, iter, unreachable, ndebug,
                   request>>

\* graph::attach(graph_ptr<void>* gp), under graphLock.
attach(gp) ==
    /\ Running /\ graphLock = NoThread
    /\ pointers' = Append(pointers, gp)
    /\ UNCHANGED <<ranges, rawPointers, collecting, graphLock, pointerLock,
                   rngs, info, scan, keep, pc, idx, iter, unreachable, ndebug,
                   request, asserted>>

\* graph::detach(graph_ptr<void>* gp): pointers.remove(gp), under graphLock.
detach(gpAddr) ==
    /\ Running /\ graphLock = NoThread
    /\ pointers' = SelectSeq(pointers, LAMBDA s : s.addr # gpAddr)
    /\ UNCHANGED <<ranges, rawPointers, collecting, graphLock, pointerLock,
                   rngs, info, scan, keep, pc, idx, iter, unreachable, ndebug,
                   request, asserted>>

\* graph::attach(raw_graph_ptr<void>* gp), under graphLock.
attach_raw(rgp) ==
    /\ Running /\ graphLock = NoThread
    /\ rawPointers' = Append(rawPointers, rgp)
    /\ UNCHANGED <<ranges, pointers, collecting, graphLock, pointerLock, rngs,
                   info, scan, keep, pc, idx, iter, unreachable, ndebug,
                   request, asserted>>

\* graph::detach(raw_graph_ptr<void>* gp), under graphLock.
detach_raw(gpAddr) ==
    /\ Running /\ graphLock = NoThread
    /\ rawPointers' = SelectSeq(rawPointers, LAMBDA s : s.addr # gpAddr)
    /\ UNCHANGED <<ranges, pointers, collecting, graphLock, pointerLock, rngs,
                   info, scan, keep, pc, idx, iter, unreachable, ndebug,
                   request, asserted>>

\* graph::collect() by thread t when no other call overlaps it: the guard
\* passes, both locks are free, and the call runs to its return.
collect(t) ==
    /\ Running /\ pc[t] = "idle"
    /\ ~collecting /\ graphLock = NoThread /\ pointerLock = NoThread
    /\ LET r == collect_result(ranges, pointers, rawPointers)
       IN /\ pointers' = r.pointers
          /\ ret' = [ret EXCEPT ![t] = r.unreachable]
    /\ UNCHANGED <<ranges, rawPointers, collecting, graphLock, pointerLock,
                   rngs, info, scan, keep, pc, idx, iter, unreachable, ndebug,
                   request, asserted>>

-----------------------------------------------------------------------------
(* The state after construction: graph::graph() only reserves capacity.    *)

\* The members and locals besides the index and the registries.
InitRest ==
    /\ collecting = FALSE
    /\ graphLock = NoThread /\ pointerLock = NoThread
    /\ rngs = <<>> /\ info = <<>> /\ scan = <<>> /\ keep = <<>>
    /\ pc = [t \in Threads |-> "idle"]
    /\ idx = [t \in Threads |-> 0]
    /\ iter = [t \in Threads |-> 0]
    /\ request = [t \in Threads |-> NoRequest]
    /\ unreachable = [t \in Threads |-> <<>>]
    /\ ret = [t \in Threads |-> <<>>]
    /\ asserted = FALSE

InitGraph ==
    /\ ranges = <<>> /\ pointers = <<>> /\ rawPointers = <<>>
    /\ InitRest

-----------------------------------------------------------------------------
(* SpecIndex: the range index alone.  add_range is called within its       *)
(* precondition; remove_range and find_range are called with any pointer.  *)

IndexAddr == 0..(MaxAddr + 1)

IsBegin(rs, p) == \E k \in 1..Len(rs) : rs[k].begin = p

InitIndex ==
    /\ InitGraph
    /\ ndebug \in BOOLEAN
    /\ last = [op |-> "init", misuse |-> FALSE]

IndexAdd(p, size) ==
    /\ CanAdd(ranges, p, size, MaxAddr)
    /\ add_range(p, size)
    /\ last' = [op |-> "add_range", misuse |-> last.misuse]
    /\ UNCHANGED ret

IndexRemove(p) ==
    /\ remove_range(p)
    /\ last' = [op |-> "remove_range", arg |-> p, before |-> ranges,
                misuse |-> last.misuse \/ ~IsBegin(ranges, p)]
    /\ UNCHANGED ret

IndexFind(a) ==
    /\ Running
    /\ last' = [op |-> "find_range", arg |-> a,
                found |-> find_range(ranges, a), misuse |-> last.misuse]
    /\ UNCHANGED <<ranges, pointers, rawPointers, collecting, graphLock,
                   pointerLock, rngs, info, scan, keep, pc, idx, iter,
                   unreachable, ret, ndebug, request, asserted>>

NextIndex ==
    \/ \E p \in 1..MaxAddr, size \in 1..MaxAddr : IndexAdd(p, size)
    \/ \E p \in IndexAddr : IndexRemove(p)
    \/ \E a \in IndexAddr : IndexFind(a)

SpecIndex == InitIndex /\ [][NextIndex]_vars

-----------------------------------------------------------------------------
(* Spec: the object graph used by one thread.  The callers keep the slot   *)
(* contract: add_range gets fresh memory, a slot is attached once at an    *)
(* address of its own, an owning slot is null or refers into a live        *)
(* allocation, and an allocation is removed only once no strong reference  *)
(* refers to it and the slots stored in it are detached.  A batch returned *)
(* by collect() is given up by the thread's next operation.                *)

GraphAddrs == 1..GraphAddr

\* The storage addresses of the attached slots.
SlotAddrs == {pointers[k].addr : k \in 1..Len(pointers)}
                 \cup {rawPointers[k].addr : k \in 1..Len(rawPointers)}

\* The addresses that lie in some range of rs.
Allocated(rs) == {a \in 0..(GraphAddr + 1) :
                      \E k \in 1..Len(rs) : InRange(a, rs[k])}

NoBatch == [t \in Threads |-> <<>>]

Init ==
    /\ InitGraph
    /\ ndebug = FALSE
    /\ last = [op |-> "init"]

GraphAdd(p, size) ==
    /\ CanAdd(ranges, p, size, GraphAddr)
    /\ \A a \in SlotAddrs : ~(p <= a /\ a < p + size)
    /\ add_range(p, size)
    /\ ret' = NoBatch
    /\ last' = [op |-> "add_range"]

GraphRemove(p) ==
    /\ \E k \in 1..Len(ranges) :
          /\ ranges[k].begin = p
          /\ \A j \in 1..Len(pointers) : ~InRange(pointers[j].ptr, ranges[k])
          /\ \A a \in SlotAddrs : ~InRange(a, ranges[k])
    /\ remove_range(p)
    /\ ret' = NoBatch
    /\ last' = [op |-> "remove_range"]

GraphAttach(gp) ==
    /\ gp.addr \notin SlotAddrs
    /\ attach(gp)
    /\ ret' = NoBatch
    /\ last' = [op |-> "attach"]

GraphDetach(gpAddr) ==
    /\ \E k \in 1..Len(pointers) : pointers[k].addr = gpAddr
    /\ detach(gpAddr)
    /\ ret' = NoBatch
    /\ last' = [op |-> "detach"]

GraphAttachRaw(rgp) ==
    /\ rgp.addr \notin SlotAddrs
    /\ attach_raw(rgp)
    /\ ret' = NoBatch
    /\ last' = [op |-> "attach"]

GraphDetachRaw(gpAddr) ==
    /\ \E k \in 1..Len(rawPointers) : rawPointers[k].addr = gpAddr
    /\ detach_raw(gpAddr)
    /\ ret' = NoBatch
    /\ last' = [op |-> "detach"]

\* collect() by the thread; last keeps the owning slots as the call found
\* them, whether the call directly follows another collect(), and the batch
\* the thread held before the call.
GraphCollect ==
    /\ collect("t1")
    /\ last' = [op |-> "collect", pointers |-> pointers,
                again |-> last.op = "collect", batch |-> ret["t1"]]

Next ==
    \/ \E p \in GraphAddrs, size \in 1..GraphAddr : GraphAdd(p, size)
    \/ \E p \in GraphAddrs : GraphRemove(p)
    \/ \E a \in GraphAddrs, q \in {0} \cup Allocated(ranges) :
           GraphAttach([addr |-> a, ptr |-> q])
    \/ \E a \in GraphAddrs : GraphDetach(a)
    \/ \E a \in GraphAddrs, q \in 0..(GraphAddr + 1) :
           GraphAttachRaw([addr |-> a, ptr |-> q])
    \/ \E a \in GraphAddrs : GraphDetachRaw(a)
    \/ GraphCollect

Spec == Init /\ [][Next]_vars

-----------------------------------------------------------------------------
(* SpecApi: the object graph used by one thread through the operations of  *)
(* graph alone: a range is removed by its begin whoever still refers into  *)
(* it, and an owning slot may hold a reference to an object that was never *)
(* registered, as the slot contract allows.                                *)

\* A write of the reference q into the attached owning slot at gpAddr: the
\* slot is assigned or reset; the registries are not involved.
assign(gpAddr, q) ==
    /\ Running
    /\ \E k \in 1..Len(pointers) :
          /\ pointers[k].addr = gpAddr
          /\ pointers' = [pointers EXCEPT ![k].ptr = q]
    /\ UNCHANGED <<ranges, rawPointers, collecting, graphLock, pointerLock,
                   rngs, info, scan, keep, pc, idx, iter, unreachable,
                   ndebug, request, asserted>>

\* What rngs[rngs.size()] can hold: the element past the end of the vector,
\* inside its reserved capacity, is never constructed.  Reading or writing
\* it is undefined behaviour; its fields read as any values.
PastTheEnd ==
    [begin : 0..(GraphAddr + 1), end : 0..(GraphAddr + 1),
     managed : {FALSE}, scanned : BOOLEAN]

\* A whole pass in which rngs[idx_r] with idx_r == rngs.size() lands on the
\* element ph past the end.
collect_result_past_end(rs, ptrs, raws, ph) ==
    LET t0 == [EmptyTrace EXCEPT !.rngs = SnapRanges(rs) \o <<ph>>]
        t1 == SnapPointers(t0, rs, ptrs, 1)
        tr == Mark(SnapRawPointers(t1, rs, raws, 1), 1)
    IN Sweep(tr, [unreachable |-> <<>>, pointers |-> ptrs], 1)

\* graph::collect() by thread t, alone, on any graph: when the snapshot
\* indexes rngs past its end the pass goes on with whatever lies there.
collect_any(t) ==
    IF Snapshot(ranges, pointers, rawPointers).oob
    THEN /\ Running /\ pc[t] = "idle"
         /\ ~collecting /\ graphLock = NoThread /\ pointerLock = NoThread
         /\ \E ph \in PastTheEnd :
               LET r == collect_result_past_end(ranges, pointers,
                                                rawPointers, ph)
               IN /\ pointers' = r.pointers
                  /\ ret' = [ret EXCEPT ![t] = r.unreachable]
         /\ UNCHANGED <<ranges, rawPointers, collecting, graphLock,
                        pointerLock, rngs, info, scan, keep, pc, idx, iter,
                        unreachable, ndebug, request, asserted>>
    ELSE collect(t)

ApiAdd(p, size) ==
    /\ CanAdd(ranges, p, size, GraphAddr)
    /\ add_range(p, size)
    /\ ret' = NoBatch
    /\ last' = [op |-> "add_range"]

ApiRemove(p) ==
    /\ IsBegin(ranges, p)
    /\ remove_range(p)
    /\ ret' = NoBatch
    /\ last' = [op |-> "remove_range"]

ApiAssign(gpAddr, q) ==
    /\ assign(gpAddr, q)
    /\ ret' = NoBatch
    /\ last' = [op |-> "assign"]

\* collect() by the thread; last keeps the owning slots as the call found
\* them.
ApiCollect ==
    /\ collect_any("t1")
    /\ last' = [op |-> "collect", pointers |-> pointers]

NextApi ==
    \/ \E p \in GraphAddrs, size \in 1..GraphAddr : ApiAdd(p, size)
    \/ \E p \in GraphAddrs : ApiRemove(p)
    \/ \E a \in GraphAddrs, q \in 0..(GraphAddr + 1) :
           GraphAttach([addr |-> a, ptr |-> q])
    \/ \E a \in GraphAddrs : GraphDetach(a)
    \/ \E a \in GraphAddrs, q \in 0..(GraphAddr + 1) :
           GraphAttachRaw([addr |-> a, ptr |-> q])
    \/ \E a \in GraphAddrs : GraphDetachRaw(a)
    \/ \E a \in GraphAddrs, q \in 0..(GraphAddr + 1) : ApiAssign(a, q)
    \/ ApiCollect

SpecApi == Init /\ [][NextApi]_vars

-----------------------------------------------------------------------------
(* SpecThreads: two threads call collect() once each on a graph that no    *)
(* mutator touches; collect_impl runs step by step.                        *)

\* A variant of the guard that turns every call away.
GuardAlwaysRejects(flag) == TRUE

\* A variant of the guard that lets every call in.
GuardNeverRejects(flag) == FALSE

\* if (that->collecting.exchange(true)): the value the exchange returns.
GuardRejects(flag) == flag

\* The member buffers as a trace state.
Buffers == [rngs |-> rngs, info |-> info, scan |-> scan, keep |-> keep,
            oob |-> FALSE]

SetBuffers(tr) ==
    /\ rngs' = tr.rngs /\ info' = tr.info
    /\ scan' = tr.scan /\ keep' = tr.keep

\* collecting.exchange(true) and, if it was set, return garbage().
collect_guard(t) ==
    /\ Running /\ pc[t] = "idle"
    /\ collecting' = TRUE
    /\ IF GuardRejects(collecting)
       THEN pc' = [pc EXCEPT ![t] = "done"] /\ ret' = [ret EXCEPT ![t] = <<>>]
       ELSE pc' = [pc EXCEPT ![t] = "lock"] /\ UNCHANGED ret
    /\ UNCHANGED <<ranges, pointers, rawPointers, graphLock, pointerLock,
                   rngs, info, scan, keep, idx, iter, unreachable, ndebug,
                   request, asserted>>

\* std::scoped_lock lk(pointerLock, graphLock): both or neither.
collect_lock(t) ==
    /\ Running /\ pc[t] = "lock"
    /\ pointerLock = NoThread /\ graphLock = NoThread
    /\ pointerLock' = t /\ graphLock' = t
    /\ pc' = [pc EXCEPT ![t] = "snapshot"]
    /\ UNCHANGED <<ranges, pointers, rawPointers, collecting, rngs, info,
                   scan, keep, idx, iter, unreachable, ret, ndebug, request,
                   asserted>>

\* for (auto& r : ranges) rngs.push_back(...), under the lock.
collect_ranges(t) ==
    /\ Running /\ pc[t] = "snapshot"
    /\ rngs' = rngs \o SnapRanges(ranges)
    /\ iter' = [iter EXCEPT ![t] = 1]
    /\ pc' = [pc EXCEPT ![t] = "owning"]
    /\ UNCHANGED <<ranges, pointers, rawPointers, collecting, graphLock,
                   pointerLock, info, scan, keep, idx, unreachable, ret,
                   ndebug, request, asserted>>

\* One turn of for (auto& gp : pointers), or the end of the loop.
collect_owning(t) ==
    /\ Running /\ pc[t] = "owning"
    /\ IF iter[t] <= Len(pointers)
       THEN LET gp == pointers[iter[t]]
            IN /\ IF IsSet(gp)
                  THEN SetBuffers(
                           PushRecord(Buffers, ranges, gp.addr,
                                      find_range_iterator(ranges, gp.ptr),
                                      TRUE))
                  ELSE UNCHANGED <<rngs, info, scan, keep>>
               /\ iter' = [iter EXCEPT ![t] = iter[t] + 1]
               /\ UNCHANGED pc
       ELSE /\ iter' = [iter EXCEPT ![t] = 1]
            /\ pc' = [pc EXCEPT ![t] = "observing"]
            /\ UNCHANGED <<rngs, info, scan, keep>>
    /\ UNCHANGED <<ranges, pointers, rawPointers, collecting, graphLock,
                   pointerLock, idx, unreachable, ret, ndebug, request,
                   asserted>>

\* One turn of for (auto& rgp : rawPointers), or the end of the loop: the
\* locked block ends, unreachable and the work index are declared.
collect_observing(t) ==
    /\ Running /\ pc[t] = "observing"
    /\ IF iter[t] <= Len(rawPointers)
       THEN LET rgp  == rawPointers[iter[t]]
                it_r == find_range_iterator(ranges, rgp.ptr)
            IN /\ IF it_r # EndIt(ranges)
                  THEN SetBuffers(PushRecord(Buffers, ranges, rgp.addr,
                                             it_r, FALSE))
                  ELSE UNCHANGED <<rngs, info, scan, keep>>
               /\ iter' = [iter EXCEPT ![t] = iter[t] + 1]
               /\ UNCHANGED <<pc, graphLock, pointerLock, unreachable, idx>>
       ELSE /\ pointerLock' = NoThread /\ graphLock' = NoThread
            /\ unreachable' = [unreachable EXCEPT ![t] = <<>>]
            /\ idx' = [idx EXCEPT ![t] = 1]
            /\ pc' = [pc EXCEPT ![t] = "mark"]
            /\ UNCHANGED <<rngs, info, scan, keep, iter>>
    /\ UNCHANGED <<ranges, pointers, rawPointers, collecting, ret, ndebug,
                   request, asserted>>

\* The test of the mark loop, i != keep.size(), and of the parent's range,
\* if (!parent.range->scanned).
collect_mark(t) ==
    /\ Running /\ pc[t] = "mark"
    /\ IF idx[t] <= Len(keep)
       THEN LET parent == info[keep[idx[t]]]
            IN IF parent.range <= Len(rngs) /\ ~rngs[parent.range].scanned
               THEN /\ iter' = [iter EXCEPT ![t] = 1]
                    /\ pc' = [pc EXCEPT ![t] = "scan"]
                    /\ UNCHANGED idx
               ELSE /\ idx' = [idx EXCEPT ![t] = idx[t] + 1]
                    /\ UNCHANGED <<iter, pc>>
       ELSE /\ iter' = [iter EXCEPT ![t] = 1]
            /\ pc' = [pc EXCEPT ![t] = "sweep"]
            /\ UNCHANGED idx
    /\ UNCHANGED <<ranges, pointers, rawPointers, collecting, graphLock,
                   pointerLock, rngs, info, scan, keep, unreachable, ret,
                   ndebug, request, asserted>>

\* One turn of the inner loop over scan, or its end: the parent's range is
\* scanned and the mark loop goes on with ++i.
collect_scan(t) ==
    /\ Running /\ pc[t] = "scan"
    /\ LET parent == info[keep[idx[t]]]
       IN IF iter[t] <= Len(scan)
          THEN LET s == ScanStep(Buffers, rngs[parent.range], iter[t])
               IN /\ SetBuffers(s.tr)
                  /\ iter' = [iter EXCEPT ![t] = s.it]
                  /\ UNCHANGED <<idx, pc>>
          ELSE /\ rngs' = [rngs EXCEPT ![parent.range].scanned = TRUE]
               /\ idx' = [idx EXCEPT ![t] = idx[t] + 1]
               /\ pc' = [pc EXCEPT ![t] = "mark"]
               /\ UNCHANGED <<info, scan, keep, iter>>
    /\ UNCHANGED <<ranges, pointers, rawPointers, collecting, graphLock,
                   pointerLock, unreachable, ret, ndebug, request, asserted>>

\* The sweep reads the slot of scan[k] through the pointer recorded at the
\* snapshot; the slot has been detached since.
Dangling(tr, ptrs, k) ==
    LET si == tr.info[tr.scan[k]]
    IN IsManaged(tr, si) /\ SlotAt(ptrs, si.gp) = 0

\* What a move from a destroyed slot can push: undefined behaviour; the
\* memory reads as an empty reference or still as the old one.
DanglingOutcomes(tr, batch, k) ==
    LET si == tr.info[tr.scan[k]]
    IN {Append(batch, 0), Append(batch, tr.rngs[si.range].begin)}

\* One turn of for (auto idx : scan), or the end of the loop.
collect_sweep(t) ==
    /\ Running /\ pc[t] = "sweep"
    /\ IF iter[t] <= Len(scan)
       THEN /\ IF Dangling(Buffers, pointers, iter[t])
               THEN /\ \E b \in DanglingOutcomes(Buffers, unreachable[t],
                                                 iter[t]) :
                           unreachable' = [unreachable EXCEPT ![t] = b]
                    /\ UNCHANGED pointers
               ELSE LET sw == SweepStep(Buffers,
                                        [unreachable |-> unreachable[t],
                                         pointers |-> pointers], iter[t])
                    IN /\ unreachable' =
                              [unreachable EXCEPT ![t] = sw.unreachable]
                       /\ pointers' = sw.pointers
            /\ iter' = [iter EXCEPT ![t] = iter[t] + 1]
            /\ UNCHANGED pc
       ELSE /\ pc' = [pc EXCEPT ![t] = "reset"]
            /\ UNCHANGED <<pointers, unreachable, iter>>
    /\ UNCHANGED <<ranges, rawPointers, collecting, graphLock, pointerLock,
                   rngs, info, scan, keep, idx, ret, ndebug, request,
                   asserted>>

\* rngs.clear(); info.clear(); scan.clear(); keep.clear();
collect_reset(t) ==
    /\ Running /\ pc[t] = "reset"
    /\ SetBuffers(EmptyTrace)
    /\ pc' = [pc EXCEPT ![t] = "clear"]
    /\ UNCHANGED <<ranges, pointers, rawPointers, collecting, graphLock,
                   pointerLock, idx, iter, unreachable, ret, ndebug, request,
                   asserted>>

\* collecting = false;
collect_clear(t) ==
    /\ Running /\ pc[t] = "clear"
    /\ collecting' = FALSE
    /\ pc' = [pc EXCEPT ![t] = "return"]
    /\ UNCHANGED <<ranges, pointers, rawPointers, graphLock, pointerLock,
                   rngs, info, scan, keep, idx, iter, unreachable, ret,
                   ndebug, request, asserted>>

\* return garbage(std::move(unreachable));
collect_return(t) ==
    /\ Running /\ pc[t] = "return"
    /\ ret' = [ret EXCEPT ![t] = unreachable[t]]
    /\ unreachable' = [unreachable EXCEPT ![t] = <<>>]
    /\ pc' = [pc EXCEPT ![t] = "done"]
    /\ UNCHANGED <<ranges, pointers, rawPointers, collecting, graphLock,
                   pointerLock, rngs, info, scan, keep, idx, iter, ndebug,
                   request, asserted>>

\* The graphs the threads start from: the scenarios of the specification's
\* section 8 and variations of them, laid out at small addresses.
\* Addresses 8 and 9 are outside every range.
MkRange(b, e) == [begin |-> b, end |-> e]
MkSlot(a, q) == [addr |-> a, ptr |-> q]

\* The small graphs.
SmallScenarios ==
    { \* empty graph
      [ranges |-> <<>>, pointers |-> <<>>, rawPointers |-> <<>>],
      \* cycle of two, no root
      [ranges |-> <<MkRange(1, 2), MkRange(2, 3)>>,
       pointers |-> <<MkSlot(1, 2), MkSlot(2, 1)>>,
       rawPointers |-> <<>>],
      \* a root observing slot into X, which an unrooted slot in Y owns
      [ranges |-> <<MkRange(1, 2), MkRange(3, 5)>>,
       pointers |-> <<MkSlot(3, 1), MkSlot(4, 3)>>,
       rawPointers |-> <<MkSlot(9, 1)>>],
      \* an owning slot stored right after the allocation it refers to, in
      \* no range
      [ranges |-> <<MkRange(1, 2)>>,
       pointers |-> <<MkSlot(2, 1)>>,
       rawPointers |-> <<>>],
      \* an unrooted object that owns itself and observes another object
      [ranges |-> <<MkRange(1, 2), MkRange(3, 5)>>,
       pointers |-> <<MkSlot(4, 3)>>,
       rawPointers |-> <<MkSlot(3, 1)>>] }

Scenarios ==
    SmallScenarios \cup
    { \* linear chain: A (owning itself) owns B owns C, no root
      [ranges |-> <<MkRange(1, 3), MkRange(3, 4), MkRange(4, 5)>>,
       pointers |-> <<MkSlot(1, 1), MkSlot(2, 3), MkSlot(3, 4)>>,
       rawPointers |-> <<>>],
      \* rooted cycle, and an unrooted object beside it
      [ranges |-> <<MkRange(1, 2), MkRange(2, 3), MkRange(4, 5)>>,
       pointers |-> <<MkSlot(1, 2), MkSlot(4, 4), MkSlot(2, 1),
                      MkSlot(9, 1)>>,
       rawPointers |-> <<>>],
      \* interior pointer: root owns A, A owns B and observes the middle
      \* of B; C is unrooted
      [ranges |-> <<MkRange(1, 3), MkRange(4, 7), MkRange(7, 8)>>,
       pointers |-> <<MkSlot(9, 1), MkSlot(1, 4), MkSlot(7, 7)>>,
       rawPointers |-> <<MkSlot(2, 5)>>],
      \* a rooted object holding two owning slots, registered around a slot
      \* of the object they refer to
      [ranges |-> <<MkRange(1, 3), MkRange(3, 4)>>,
       pointers |-> <<MkSlot(9, 1), MkSlot(1, 3), MkSlot(3, 1),
                      MkSlot(2, 3)>>,
       rawPointers |-> <<>>] }

NoCall == [entry |-> "none", overlap |-> FALSE]

InitThreads ==
    /\ InitRest
    /\ ndebug = FALSE
    /\ \E g \in Scenarios :
          /\ ranges = g.ranges
          /\ pointers = g.pointers
          /\ rawPointers = g.rawPointers
          /\ last = [pointers |-> g.pointers,
                     call |-> [t \in Threads |-> NoCall]]

\* The history of thread t's call: how the guard answered, and whether the
\* other thread was inside collect() when t entered.
NoteEntry(t) ==
    last' = [last EXCEPT
                !.call[t] =
                    [entry |-> IF collecting THEN "rejected" ELSE "accepted",
                     overlap |-> \E u \in Threads \ {t} :
                                     pc[u] \notin {"idle", "done"}]]

ThreadStep(t) ==
    \/ collect_guard(t) /\ NoteEntry(t)
    \/ collect_lock(t) /\ UNCHANGED last
    \/ collect_ranges(t) /\ UNCHANGED last
    \/ collect_owning(t) /\ UNCHANGED last
    \/ collect_observing(t) /\ UNCHANGED last
    \/ collect_mark(t) /\ UNCHANGED last
    \/ collect_scan(t) /\ UNCHANGED last
    \/ collect_sweep(t) /\ UNCHANGED last
    \/ collect_reset(t) /\ UNCHANGED last
    \/ collect_clear(t) /\ UNCHANGED last
    \/ collect_return(t) /\ UNCHANGED last

NextThreads == \E t \in Threads : ThreadStep(t)

SpecThreads == InitThreads /\ [][NextThreads]_vars

\* The same with a fair scheduler: a thread whose next step stays possible
\* takes it.  No step of collect_impl waits but the scoped_lock, and the
\* locks are held only from collect_lock to the end of collect_observing.
SpecThreadsFair ==
    SpecThreads /\ \A t \in Threads : WF_vars(ThreadStep(t))

-----------------------------------------------------------------------------
(* SpecConc: two threads use the graph at once.  A thread outside every    *)
(* call may enter collect(), which runs step by step, or a registry call,  *)
(* which takes graphLock, acts and releases it; a thread that holds a      *)
(* batch destroys it before its next call.  The callers keep the slot      *)
(* contract as in Spec; slots are destroyed whenever their owner decides.  *)

\* A variant of the lock that is handed out while another thread holds it.
LockIgnored(lock) == TRUE

\* std::lock_guard<std::mutex> lk(graphLock) can return: the mutex is free.
CanLock(lock) == lock = NoThread

\* The lock_guard at the head of the registry call c.
lock_guard(t, c) ==
    /\ Running /\ pc[t] = "idle"
    /\ CanLock(graphLock)
    /\ graphLock' = t
    /\ request' = [request EXCEPT ![t] = c]
    /\ pc' = [pc EXCEPT ![t] = "call"]
    /\ UNCHANGED <<ranges, pointers, rawPointers, collecting, pointerLock,
                   rngs, info, scan, keep, idx, iter, unreachable, ret,
                   ndebug, asserted>>

\* The end of a registry call: the lock_guard goes out of scope.
unlock(t) ==
    /\ graphLock' = NoThread
    /\ request' = [request EXCEPT ![t] = NoRequest]
    /\ pc' = [pc EXCEPT ![t] = "idle"]
    /\ UNCHANGED <<collecting, pointerLock, rngs, info, scan, keep, idx,
                   iter, unreachable, ret, ndebug, asserted>>

\* The body of graph::add_range under the lock.
locked_add_range(t) ==
    /\ Running /\ pc[t] = "call" /\ request[t].op = "add_range"
    /\ ranges' = add_range_result(ranges, request[t].p, request[t].size)
    /\ unlock(t)
    /\ UNCHANGED <<pointers, rawPointers>>

\* The body of graph::remove_range under the lock, for a range present.
locked_remove_range(t) ==
    /\ Running /\ pc[t] = "call" /\ request[t].op = "remove_range"
    /\ LET it == find_range_iterator(ranges, request[t].p)
       IN /\ it # EndIt(ranges)
          /\ ranges' = EraseAt(ranges, it)
    /\ unlock(t)
    /\ UNCHANGED <<pointers, rawPointers>>

\* The body of graph::attach(graph_ptr<void>*) under the lock.
locked_attach(t) ==
    /\ Running /\ pc[t] = "call" /\ request[t].op = "attach"
    /\ pointers' = Append(pointers, request[t].gp)
    /\ unlock(t)
    /\ UNCHANGED <<ranges, rawPointers>>

\* The body of graph::detach(graph_ptr<void>*) under the lock.
locked_detach(t) ==
    /\ Running /\ pc[t] = "call" /\ request[t].op = "detach"
    /\ pointers' = SelectSeq(pointers, LAMBDA s : s.addr # request[t].addr)
    /\ unlock(t)
    /\ UNCHANGED <<ranges, rawPointers>>

\* The body of graph::attach(raw_graph_ptr<void>*) under the lock.
locked_attach_raw(t) ==
    /\ Running /\ pc[t] = "call" /\ request[t].op = "attach_raw"
    /\ rawPointers' = Append(rawPointers, request[t].gp)
    /\ unlock(t)
    /\ UNCHANGED <<ranges, pointers>>

\* The body of graph::detach(raw_graph_ptr<void>*) under the lock.
locked_detach_raw(t) ==
    /\ Running /\ pc[t] = "call" /\ request[t].op = "detach_raw"
    /\ rawPointers' =
           SelectSeq(rawPointers, LAMBDA s : s.addr # request[t].addr)
    /\ unlock(t)
    /\ UNCHANGED <<ranges, pointers>>

\* ~garbage(): the caller of collect() lets go of the batch; its strong
\* references are released with no lock held and the flag long cleared.
garbage_destroy(t) ==
    /\ Running /\ pc[t] = "done"
    /\ ret' = [ret EXCEPT ![t] = <<>>]
    /\ pc' = [pc EXCEPT ![t] = "idle"]
    /\ UNCHANGED <<ranges, pointers, rawPointers, collecting, graphLock,
                   pointerLock, rngs, info, scan, keep, idx, iter,
                   unreachable, ndebug, request, asserted>>

\* The addresses a thread places a new slot and a new allocation at.
NewSlotAddrs == {8}
NewRangeAddrs == {10}

\* The addresses used as references.
RefAddrs == 1..10

\* How many strong references to address q there are: in owning slots, in
\* the threads' local vectors and in the batches they hold.
Count(s, q) == Cardinality({i \in 1..Len(s) : s[i] = q})
RefCount(q) ==
    Cardinality({k \in 1..Len(pointers) : pointers[k].ptr = q})
        + Count(unreachable["t1"], q) + Count(unreachable["t2"], q)
        + Count(ret["t1"], q) + Count(ret["t2"], q)

\* The object with range r is dead: no strong reference refers into it.
Dead(r) == \A q \in RefAddrs : InRange(q, r) => RefCount(q) = 0

\* The slot stored at address a is a member of a dead object: the object's
\* destructor destroys it.
InDead(a) == \E k \in 1..Len(ranges) : Dead(ranges[k]) /\ InRange(a, ranges[k])

\* Object destruction may call remove_range(p): the object is dead and the
\* slots stored in it are detached.
MayRemove(p) ==
    \E k \in 1..Len(ranges) :
        /\ ranges[k].begin = p
        /\ Dead(ranges[k])
        /\ \A a \in SlotAddrs : ~InRange(a, ranges[k])

\* The begins of the ranges present.
Begins == {ranges[k].begin : k \in 1..Len(ranges)}

\* Thread t1 calls collect() once.  The threads make MaxCalls registry calls
\* of their own choice between them, the calls of destructors not counted.
MaxCalls == 1

InitConc ==
    /\ InitRest
    /\ ndebug = FALSE
    /\ \E g \in SmallScenarios :
          /\ ranges = g.ranges
          /\ pointers = g.pointers
          /\ rawPointers = g.rawPointers
    /\ last = [op |-> "init", t |-> NoThread, freed |-> FALSE,
               collected |-> FALSE, calls |-> 0, stale |-> FALSE]

\* The history: the last call completed and the thread that made it,
\* whether a batch that held references has been destroyed, whether t1 has
\* entered collect(), the number of calls counted so far, and whether the
\* sweep has read a slot detached since the snapshot.
Note(t) == last' = [last EXCEPT !.op = request[t].op, !.t = t]

\* The calls a thread may choose to make.
ChosenCalls ==
    {[op |-> "add_range", p |-> p, size |-> 1] :
         p \in {a \in NewRangeAddrs : CanAdd(ranges, a, 1, a)}}
    \cup {[op |-> "attach", gp |-> [addr |-> a, ptr |-> q]] :
              a \in NewSlotAddrs \ SlotAddrs, q \in {0} \cup Begins}
    \cup {[op |-> "attach_raw", gp |-> [addr |-> a, ptr |-> q]] :
              a \in NewSlotAddrs \ SlotAddrs, q \in Begins}
    \cup {[op |-> "detach", addr |-> pointers[k].addr] :
              k \in {j \in 1..Len(pointers) : ~InDead(pointers[j].addr)}}
    \cup {[op |-> "detach_raw", addr |-> rawPointers[k].addr] :
              k \in {j \in 1..Len(rawPointers) :
                         ~InDead(rawPointers[j].addr)}}

\* The calls the destructor of a dead object makes.
DestructorCalls ==
    {[op |-> "remove_range", p |-> p] : p \in {b \in Begins : MayRemove(b)}}
    \cup {[op |-> "detach", addr |-> pointers[k].addr] :
              k \in {j \in 1..Len(pointers) : InDead(pointers[j].addr)}}
    \cup {[op |-> "detach_raw", addr |-> rawPointers[k].addr] :
              k \in {j \in 1..Len(rawPointers) :
                         InDead(rawPointers[j].addr)}}

ConcStep(t) ==
    \/ /\ t = "t1" /\ ~last.collected
       /\ collect_guard(t)
       /\ last' = [last EXCEPT !.collected = TRUE]
    \/ collect_lock(t) /\ UNCHANGED last
    \/ collect_ranges(t) /\ UNCHANGED last
    \/ collect_owning(t) /\ UNCHANGED last
    \/ collect_observing(t) /\ UNCHANGED last
    \/ collect_mark(t) /\ UNCHANGED last
    \/ collect_scan(t) /\ UNCHANGED last
    \/ /\ collect_sweep(t)
       /\ last' = [last EXCEPT
                       !.stale = last.stale
                                     \/ /\ iter[t] <= Len(scan)
                                        /\ Dangling(Buffers, pointers,
                                                    iter[t])]
    \/ collect_reset(t) /\ UNCHANGED last
    \/ collect_clear(t) /\ UNCHANGED last
    \/ /\ collect_return(t)
       /\ last' = [last EXCEPT !.op = "collect", !.t = t]
    \/ /\ garbage_destroy(t)
       /\ last' = [last EXCEPT !.op = "destroy", !.t = t,
                               !.freed = last.freed \/ ret[t] # <<>>]
    \/ /\ last.calls < MaxCalls
       /\ \E c \in ChosenCalls : lock_guard(t, c)
       /\ last' = [last EXCEPT !.calls = last.calls + 1]
    \/ /\ \E c \in DestructorCalls : lock_guard(t, c)
       /\ UNCHANGED last
    \/ locked_add_range(t) /\ Note(t)
    \/ locked_remove_range(t) /\ Note(t)
    \/ locked_attach(t) /\ Note(t)
    \/ locked_detach(t) /\ Note(t)
    \/ locked_attach_raw(t) /\ Note(t)
    \/ locked_detach_raw(t) /\ Note(t)

NextConc == \E t \in Threads : ConcStep(t)

SpecConc == InitConc /\ [][NextConc]_vars

-----------------------------------------------------------------------------
(* Reachability as the specification defines it, from the half-open        *)
(* ranges alone: an object is the position of its range in the index.      *)

\* The objects whose range holds address a among its bytes (none or one).
Holding(rs, a) == {k \in 1..Len(rs) : InRange(a, rs[k])}

\* The non-null owning slots of a registry.
OwningSlots(ptrs) == {ptrs[j] : j \in {i \in 1..Len(ptrs) : ptrs[i].ptr # 0}}

\* The objects a set of slots refers to.
Referents(rs, slots) == UNION {Holding(rs, s.ptr) : s \in slots}

\* Root slots: stored outside every range.
RootSlots(rs, slots) == {s \in slots : Holding(rs, s.addr) = {}}

\* The least set of objects that holds S and, with an object, the referents
\* of the slots stored inside it.
RECURSIVE Closure(_, _, _)
Closure(rs, slots, S) ==
    LET more == Referents(rs, {s \in slots : Holding(rs, s.addr) \cap S # {}})
    IN IF more \subseteq S THEN S ELSE Closure(rs, slots, S \cup more)

\* The objects transitively reachable from the root slots among slots.
Reachable(rs, slots) ==
    Closure(rs, slots, Referents(rs, RootSlots(rs, slots)))

\* The objects a batch holds a strong reference to.
BatchObjects(rs, batch) == Referents(rs, {[ptr |-> batch[j]] :
                                              j \in 1..Len(batch)})

\* The last operation was a collect() of the thread.
Collected == last.op = "collect"

-----------------------------------------------------------------------------
(* Properties of a collect() pass, stated for Spec.                        *)

\* C1 as stated (no false free): after collect() no object transitively
\* reachable from a root owning slot, one stored outside every range
\* [begin, end), is in the returned batch.
C1_AsStated ==
    Collected =>
        Reachable(ranges, OwningSlots(last.pointers))
            \cap BatchObjects(ranges, ret["t1"]) = {}

\* C2 as stated (no leak): an object referred to by owning slots, all of them
\* stored inside allocations that no root reaches, is in the returned batch,
\* whatever observing slots are registered.  Reachability here counts every
\* registered slot, observing ones too, which only narrows the claim.
C2_AsStated ==
    Collected =>
        LET owning == OwningSlots(last.pointers)
            live   == Reachable(ranges, owning \cup Range(rawPointers))
        IN \A k \in Referents(ranges, owning) :
               (\A s \in owning :
                    k \in Holding(ranges, s.ptr) =>
                        /\ Holding(ranges, s.addr) # {}
                        /\ Holding(ranges, s.addr) \cap live = {})
               => k \in BatchObjects(ranges, ret["t1"])

\* The set C of objects is a cycle closed under ownership: each object of C
\* is referred to by an owning slot, every owning slot referring into C is
\* stored inside an object of C, and each object of C holds such a slot.
IsOwnedCycle(rs, owning, C) ==
    /\ C # {}
    /\ \A s \in owning :
           Holding(rs, s.ptr) \cap C # {} =>
               Holding(rs, s.addr) # {} /\ Holding(rs, s.addr) \subseteq C
    /\ \A k \in C :
           /\ \E s \in owning : k \in Holding(rs, s.ptr)
           /\ \E s \in owning : k \in Holding(rs, s.addr)
                                    /\ Holding(rs, s.ptr) \cap C # {}

\* C3 as stated (cycle collection): one collect() returns every object of a
\* cycle that is referred to only from inside itself.
C3_AsStated ==
    Collected =>
        \A C \in SUBSET (1..Len(ranges)) :
            IsOwnedCycle(ranges, OwningSlots(last.pointers), C)
                => C \subseteq BatchObjects(ranges, ret["t1"])

\* The objects some observing slot points into and no owning slot refers to.
ObservedOnly(rs, ptrs, raws) ==
    Referents(rs, Range(raws)) \ Referents(rs, OwningSlots(ptrs))

\* C4 as stated: an object pointed into only by observing slots is in the
\* batch that collect() returns.
C4_AsStated ==
    Collected =>
        ObservedOnly(ranges, last.pointers, rawPointers)
            \subseteq BatchObjects(ranges, ret["t1"])

\* C4 amended: an object pointed into only by observing slots is never in
\* the batch: the batch holds only strong references moved out of owning
\* slots, and each of them was held by an owning slot before the call.
C4_ObservedOnlyNotReturned ==
    Collected =>
        /\ ObservedOnly(ranges, last.pointers, rawPointers)
               \cap BatchObjects(ranges, ret["t1"]) = {}
        /\ \A j \in 1..Len(ret["t1"]) :
               \E s \in OwningSlots(last.pointers) : s.ptr = ret["t1"][j]

\* C4's case: collect() has run on a graph where a root observing slot points
\* into an object no owning slot refers to.
C4_Witness ==
    /\ Collected
    /\ \E s \in RootSlots(ranges, Range(rawPointers)) :
           Holding(ranges, s.ptr) # {}
               /\ Holding(ranges, s.ptr)
                      \subseteq ObservedOnly(ranges, last.pointers,
                                             rawPointers)

\* C5 as stated: every object collect() returns with no observing slot
\* registered is also returned with the observing slots registered.
C5_AsStated ==
    Collected =>
        BatchObjects(ranges,
                     collect_result(ranges, last.pointers, <<>>).unreachable)
            \subseteq BatchObjects(ranges, ret["t1"])

\* C6: a collect() directly after a collect() returns an empty batch.
C6_Idempotent == Collected /\ last.again => ret["t1"] = <<>>

\* C6's case: the second of two collect() calls in a row, the first of which
\* returned a batch.
C6_Witness ==
    /\ Collected /\ last.again /\ last.batch # <<>>
    /\ ret["t1"] = <<>>

-----------------------------------------------------------------------------
(* Properties of overlapping collect() calls, stated for SpecThreads.      *)

OtherThread(t) == CHOOSE u \in Threads : u # t

\* The batch of one collect() on the graph the threads started from.
AloneBatch == collect_result(ranges, last.pointers, rawPointers).unreachable

\* A call that found the flag set has returned an empty batch; the call in
\* progress returns the batch it would return alone; of two overlapping calls
\* on a graph with garbage exactly one returns a non-empty batch.
GuardOutcome ==
    /\ \A t \in Threads :
           last.call[t].entry = "rejected" =>
               pc[t] = "done" /\ ret[t] = <<>>
    /\ \A t \in Threads :
           /\ last.call[t].entry = "accepted" /\ pc[t] = "done"
           /\ last.call[OtherThread(t)].entry = "rejected"
           => ret[t] = AloneBatch
    /\ /\ \A t \in Threads : pc[t] = "done"
       /\ \E t \in Threads : last.call[t].overlap
       /\ AloneBatch # <<>>
       => Cardinality({t \in Threads : ret[t] # <<>>}) = 1

\* A call entering while the flag is set returns in that step, with an empty
\* batch, takes no lock and writes no buffer, slot or flag.
GuardStep ==
    \A t \in Threads :
        pc[t] = "idle" /\ pc'[t] # "idle" /\ collecting =>
            /\ pc'[t] = "done" /\ ret'[t] = <<>>
            /\ UNCHANGED <<rngs, info, scan, keep, graphLock, pointerLock,
                           pointers, collecting, unreachable, idx, iter>>

\* C7 (re-entrancy guard): a collect() entering while another call is between
\* setting and clearing the in-progress flag returns an empty batch at once,
\* without a lock and without touching the transient buffers; the call in
\* progress returns the batch it would return alone, and of two overlapping
\* calls on a graph with garbage exactly one returns a non-empty batch.
C7_ReentrancyGuard == []GuardOutcome /\ [][GuardStep]_vars

\* C7's case: both calls have returned, one was rejected while the other was
\* marking or sweeping, and the other returned the garbage.
C7_Witness ==
    \E t \in Threads :
        /\ pc[t] = "done" /\ pc[OtherThread(t)] = "done"
        /\ last.call[t].entry = "rejected" /\ last.call[t].overlap
        /\ last.call[OtherThread(t)].entry = "accepted"
        /\ ret[OtherThread(t)] # <<>>
        /\ ret[OtherThread(t)] = AloneBatch

-----------------------------------------------------------------------------
(* Properties of the range index, stated for SpecIndex.                    *)

Sorted(rs) == \A k \in 1..(Len(rs) - 1) : rs[k].begin < rs[k + 1].begin

Disjoint(rs) ==
    \A j, k \in 1..Len(rs) :
        j # k => rs[j].end <= rs[k].begin \/ rs[k].end <= rs[j].begin

\* C8: after any sequence of add_range calls within the precondition and
\* remove_range calls whose pointer is the begin of a present range, the
\* index is sorted by strictly increasing begin and pairwise disjoint.
C8_SortedDisjoint == ~last.misuse => Sorted(ranges) /\ Disjoint(ranges)

\* C8's case: a range was removed by its begin from an index of three, after
\* an add_range that had to insert before a range already present.
C8_Witness ==
    /\ ~last.misuse /\ last.op = "remove_range"
    /\ Len(last.before) = 3 /\ Len(ranges) = 2
    /\ last.arg = last.before[2].begin

\* The address lies in no range, between a range below it and one above it.
InGap(rs, a) ==
    /\ \A k \in 1..Len(rs) : ~InRange(a, rs[k])
    /\ \E k \in 1..Len(rs) : rs[k].end <= a
    /\ \E k \in 1..Len(rs) : a < rs[k].begin

\* find_range returns ranges[k] exactly when a is in [begin, end] of it, the
\* upper bound included, and no other range holds a among its bytes.
FindsExactly(rs, a, found) ==
    /\ found = <<>> \/ \E k \in 1..Len(rs) : found = <<rs[k]>>
    /\ \A k \in 1..Len(rs) :
          found = <<rs[k]>> <=>
              /\ rs[k].begin <= a /\ a <= rs[k].end
              /\ \A j \in 1..Len(rs) : j # k => ~InRange(a, rs[j])

\* C9 as stated: find_range(a) returns r iff a is in [r.begin, r.end] and no
\* other range contains a, and it returns no range for the null address and
\* for every address in a gap between two ranges.
C9_AsStated ==
    last.op = "find_range" =>
        /\ FindsExactly(ranges, last.arg, last.found)
        /\ last.arg = 0 \/ InGap(ranges, last.arg) => last.found = <<>>

\* C9 amended: the same equivalence; no range is returned for the null
\* address and for a gap address that is not the end of a range, while the
\* first address of a gap, the end of the range below it, is attributed to
\* that range.
C9_Containment ==
    last.op = "find_range" =>
        LET a == last.arg
            isEnd == \E k \in 1..Len(ranges) : ranges[k].end = a
        IN /\ FindsExactly(ranges, a, last.found)
           /\ a = 0 => last.found = <<>>
           /\ InGap(ranges, a) /\ ~isEnd => last.found = <<>>
           /\ InGap(ranges, a) /\ isEnd =>
                  last.found # <<>> /\ last.found[1].end = a

\* C9's case: a query for the first address of a gap between two ranges.
C9_Witness ==
    /\ last.op = "find_range" /\ InGap(ranges, last.arg)
    /\ last.found # <<>> /\ last.found[1].end = last.arg

\* C10 as stated, in a build whose assert is compiled in: remove_range(ptr)
\* erases exactly the range whose begin is ptr; when no range begins at ptr
\* the assertion trips and nothing is erased.
C10_AsStated ==
    last.op = "remove_range" /\ ~ndebug =>
        IF IsBegin(last.before, last.arg)
        THEN /\ ~asserted
             /\ ranges = SelectSeq(last.before,
                                   LAMBDA r : r.begin # last.arg)
        ELSE asserted /\ ranges = last.before

-----------------------------------------------------------------------------
(* Properties of the trace of one pass, stated for SpecThreads: the graph  *)
(* is the one the pass has snapshotted, since no mutator runs.             *)

\* The orders a registry holding the same slots can have.
Perms(s) ==
    {[k \in 1..Len(s) |-> s[f[k]]] : f \in Permutations(1..Len(s))}

\* Thread t has left the mark loop and has not swept yet.
MarkEnded(t) == pc[t] = "sweep" /\ iter[t] = 1

\* Thread t has just built its snapshot.
SnapshotEnded(t) == pc[t] = "mark" /\ idx[t] = 1

\* The storage addresses of the slots whose records are in keep.
KeptSlots(tr) == {tr.info[tr.keep[i]].gp : i \in 1..Len(tr.keep)}

\* The batch a sweep of the buffers tr returns, as a set of objects.
SweptObjects(tr, batch, ptrs) ==
    BatchObjects(ranges, Sweep(tr, [unreachable |-> batch,
                                    pointers |-> ptrs], 1).unreachable)

\* C14 (determinism of the trace): when the mark loop of a pass ends, the
\* slots whose records are in keep and the objects the sweep is about to
\* return are those a pass computes from the same ranges and the same slots
\* registered in any other order, which is also every order the scan vector
\* can be in when it is traversed and compacted.
C14_Deterministic ==
    \A t \in Threads :
        MarkEnded(t) =>
            \A p \in Perms(pointers), q \in Perms(rawPointers) :
                LET tr == Mark(Snapshot(ranges, p, q), 1)
                IN /\ KeptSlots(tr) = KeptSlots(Buffers)
                   /\ SweptObjects(tr, <<>>, p)
                          = SweptObjects(Buffers, unreachable[t], pointers)

\* C14's case: a pass whose mark loop moved records from scan to keep and
\* left others, on a graph with several slots to order.
C14_Witness ==
    \E t \in Threads :
        /\ MarkEnded(t)
        /\ Cardinality(Perms(pointers)) > 2
        /\ Len(keep) > Len(Snapshot(ranges, pointers, rawPointers).keep)
        /\ Len(scan) > 0

\* C15 as stated (classification agrees with the mark test): when the
\* snapshot ends a record is in keep if and only if its slot is stored in no
\* range [begin, end); a slot stored at the end of a range and in no other
\* range is a root.
C15_AsStated ==
    \A t \in Threads :
        SnapshotEnded(t) =>
            \A id \in 1..Len(info) :
                id \in Range(keep) <=> Holding(ranges, info[id].gp) = {}

\* C16 as stated (range mark): when the snapshot ends the managed flag of a
\* range is true if and only if a non-null owning slot points into it,
\* whatever observing slots point into it.
C16_AsStated ==
    \A t \in Threads :
        SnapshotEnded(t) =>
            \A k \in 1..Len(rngs) :
                rngs[k].managed <=>
                    \E s \in OwningSlots(pointers) :
                        k \in Holding(ranges, s.ptr)

\* How often x occurs in the sequence s.
Occurrences(s, x) == Cardinality({i \in 1..Len(s) : s[i] = x})

\* The records keep held when the snapshot ended.
RootRecords == Range(Snapshot(ranges, pointers, rawPointers).keep)

\* The least set of records that holds S and, with a record, the records of
\* the slots stored in the range that record refers to.
RECURSIVE RecordClosure(_)
RecordClosure(S) ==
    LET more == {id \in 1..Len(info) :
                     \E par \in S :
                         /\ info[par].range <= Len(rngs)
                         /\ InRange(info[id].gp, rngs[info[par].range])}
    IN IF more \subseteq S THEN S ELSE RecordClosure(S \cup more)

\* C17 (keep/scan partition): at every turn of the mark loop each record
\* index is in exactly one of keep and scan, once; when the loop ends scan
\* holds exactly the records whose slot is not transitively reachable from
\* a record the snapshot put in keep.
C17_Partition ==
    \A t \in Threads :
        pc[t] \in {"mark", "scan", "sweep"} =>
            /\ \A id \in 1..Len(info) :
                   Occurrences(keep, id) + Occurrences(scan, id) = 1
            /\ MarkEnded(t) =>
                   Range(scan) = (1..Len(info)) \ RecordClosure(RootRecords)

\* C17's case: the loop has ended after moving records to keep, one of them
\* from the last place of scan, and has left records in scan.
C17_Witness ==
    \E t \in Threads :
        /\ MarkEnded(t)
        /\ Len(scan) > 0
        /\ Cardinality(RecordClosure(RootRecords))
               > Cardinality(RootRecords) + 1

\* The storage addresses of the registered observing slots.
RawAddrs == {rawPointers[k].addr : k \in 1..Len(rawPointers)}

\* C19 (sweep cast safety): from the end of the snapshot to the sweep, a
\* record in scan whose range has managed == true is the record of an
\* owning slot, never of an observing slot.
C19_SweepCastSafe ==
    \A t \in Threads :
        pc[t] \in {"mark", "scan", "sweep", "reset"} =>
            \A i \in 1..Len(scan) :
                IsManaged(Buffers, info[scan[i]]) =>
                    /\ SlotAt(pointers, info[scan[i]].gp) # 0
                    /\ info[scan[i]].gp \notin RawAddrs

\* C19's case: the mark loop has ended with the record of an observing slot
\* and the record of an owning slot of a managed range both left in scan.
C19_Witness ==
    \E t \in Threads :
        /\ MarkEnded(t)
        /\ \E i \in 1..Len(scan) : info[scan[i]].gp \in RawAddrs
        /\ \E i \in 1..Len(scan) : IsManaged(Buffers, info[scan[i]])

-----------------------------------------------------------------------------
(* Termination of a pass, stated for SpecThreadsFair.                      *)

\* No thread is between the guard and the clearing of the flag.
NoPass == \A t \in Threads : pc[t] \in {"idle", "return", "done"}

\* The mark loop adds to keep at most the records there are, and the work
\* index stays within keep.
MarkBounded ==
    \A t \in Threads :
        pc[t] \in {"mark", "scan"} =>
            Len(keep) <= Len(info) /\ idx[t] <= Len(keep) + 1

\* Outside a pass the buffers are cleared and the flag is reset, and a call
\* is rejected only when it entered during another thread's call.
PassLeavesClean ==
    /\ NoPass =>
           ~collecting /\ rngs = <<>> /\ info = <<>>
                       /\ scan = <<>> /\ keep = <<>>
    /\ \A t \in Threads :
           last.call[t].entry = "rejected" => last.call[t].overlap

\* C18 (termination of a pass): a call that passed the guard leaves its mark
\* loop after at most one addition to keep per record, clears the buffers,
\* resets the flag and returns, and a call made after it is not rejected.
C18_Termination ==
    /\ []MarkBounded
    /\ []PassLeavesClean
    /\ \A t \in Threads : (pc[t] = "lock") ~> (pc[t] = "done")

\* C18's case: a thread's call has returned a batch, and the other thread's
\* call, made after it, was let in by the guard and has returned too.
C18_Witness ==
    /\ \A t \in Threads :
           pc[t] = "done" /\ last.call[t].entry = "accepted"
                          /\ ~last.call[t].overlap
    /\ \E t \in Threads : ret[t] # <<>>

-----------------------------------------------------------------------------
(* The snapshot's range index, stated for SpecApi.                         *)

\* C20 as stated (range index in bounds): whenever collect() runs, every
\* non-null owning slot has a range the snapshot attributes its referent
\* to, so the index it stores is smaller than the number of ranges.
C20_AsStated ==
    Collected =>
        \A s \in OwningSlots(last.pointers) :
            find_range_iterator(ranges, s.ptr) # EndIt(ranges)

-----------------------------------------------------------------------------
(* Properties of collect() among concurrent registry calls, stated for     *)
(* SpecConc.                                                               *)

\* Thread t is inside collect_impl, past the guard.
InPass(t) ==
    pc[t] \in {"lock", "snapshot", "owning", "observing", "mark", "scan",
               "sweep", "reset", "clear", "return"}

\* Thread t is in the snapshot phase, under the scoped_lock.
InSnapshot(t) == pc[t] \in {"snapshot", "owning", "observing"}

\* The step is one of thread t's collect(): the other thread stays put.
PassStep(t) == InPass(t) /\ \A u \in Threads \ {t} : pc'[u] = pc[u]

\* A step of collect() lets no strong reference go and makes no registry
\* call of a destructor: no count of references drops, no range and no
\* slot leaves the graph.
NoRelease ==
    \A t \in Threads :
        PassStep(t) =>
            /\ \A q \in RefAddrs : RefCount(q)' >= RefCount(q)
            /\ ranges' = ranges /\ rawPointers' = rawPointers
            /\ Len(pointers') = Len(pointers)

\* References taken by the sweep are in the local vector until the return
\* and in the returned batch after it; the thread that holds a batch holds
\* no lock, and the flag it set is cleared.
BatchOutside ==
    \A t \in Threads :
        /\ unreachable[t] # <<>> =>
               pc[t] \in {"sweep", "reset", "clear", "return"}
        /\ ret[t] # <<>> => pc[t] = "done"
        /\ pc[t] \in {"return", "done"} =>
               /\ graphLock # t /\ pointerLock # t
               /\ collecting => \E u \in Threads \ {t} : InPass(u)

\* A lock is held only inside the block that takes it.
LockDiscipline ==
    \A t \in Threads :
        /\ graphLock = t => pc[t] = "call" \/ InSnapshot(t)
        /\ pointerLock = t => InSnapshot(t)

\* A thread inside a call, holding a batch, or with a destructor's call to
\* make can take a step, or the thread holding graphLock can.
NoDeadlock ==
    \A t \in Threads :
        pc[t] # "idle" \/ DestructorCalls # {} =>
            \/ ENABLED ConcStep(t)
            \/ \E u \in Threads \ {t} : graphLock = u /\ ENABLED ConcStep(u)

\* C11 (deadlock-free destruction): collect() releases no strong reference
\* while it holds a lock or while the flag is set, references taken from
\* slots only move into the batch it returns, the batch is destroyed by a
\* thread that holds no lock, and in no interleaving of collect() with
\* registry calls, those of destructors included, is a thread stuck.
C11_DeadlockFree ==
    /\ []BatchOutside
    /\ []LockDiscipline
    /\ []NoDeadlock
    /\ [][NoRelease]_vars

\* C11's case: the thread that called collect() has destroyed a batch that
\* held references, and a destructor's remove_range on that thread has
\* taken graphLock and returned.
C11_Witness ==
    /\ last.op = "remove_range" /\ last.t = "t1" /\ last.freed
    /\ graphLock = NoThread /\ ~collecting

\* No two threads are inside a registry call or the snapshot phase at once,
\* and the thread inside holds graphLock.
Serialized ==
    \A t \in Threads :
        pc[t] = "call" \/ InSnapshot(t) =>
            /\ graphLock = t
            /\ \A u \in Threads \ {t} : pc[u] # "call" /\ ~InSnapshot(u)

\* When the loops of the snapshot end, the buffers are the snapshot of the
\* ranges and registries as they are.
SnapshotConsistent ==
    \A t \in Threads :
        pc[t] = "observing" /\ iter[t] > Len(rawPointers) =>
            Buffers = Snapshot(ranges, pointers, rawPointers)

\* No step taken while a thread is in the snapshot phase changes the ranges
\* or a registry.
SnapshotFrozen ==
    (\E t \in Threads : InSnapshot(t)) =>
        UNCHANGED <<ranges, pointers, rawPointers>>

\* C12 (snapshot atomicity): while collect() builds its snapshot no attach,
\* detach, add_range or remove_range of another thread takes effect, each
\* such call lies wholly before or wholly after the snapshot phase, and two
\* such calls never overlap.
C12_SnapshotAtomic ==
    /\ []Serialized
    /\ []SnapshotConsistent
    /\ [][SnapshotFrozen]_vars

\* C12's case: the snapshot loops are under way on a graph the other thread
\* changed by a registry call before the lock was taken, and the other
\* thread is outside every call.
C12_Witness ==
    \E t \in Threads :
        /\ pc[t] = "observing" /\ Len(info) > 0
        /\ last.calls > 0 /\ last.t = OtherThread(t)
        /\ pc[OtherThread(t)] = "idle"

\* C13 as stated (lock-free mark and sweep are safe): the sweep never reads
\* the strong reference of, or moves from, a slot detached since the
\* snapshot.
C13_AsStated == ~last.stale
=============================================================================
